---- MODULE Spec2Model ----
(***************************************************************************)
(* RozRemembers (src/src/roz_remembers.py): a message-driven state store.  *)
(* One asyncio task consumes actions from an inbound queue, applies        *)
(* SET_STATE writes to a JSON-like document through a dotted-path engine   *)
(* and publishes STATE_CHANGED events.                                     *)
(*                                                                         *)
(* Python objects are modelled with their identity: dicts and lists live   *)
(* in a heap (a sequence of containers, an address is an index) and a      *)
(* value is either a scalar or a reference to a heap container, so that    *)
(* copy.deepcopy, in-place mutation and aliasing are what they are in the  *)
(* interpreter.  Strings the code inspects character by character (paths,  *)
(* keys) are sequences of one-character strings.                           *)
(***************************************************************************)
EXTENDS Integers, Sequences, FiniteSets, TLC

(***************************************************************************)
(* Bounds of the model.                                                    *)
(***************************************************************************)
\* dispatch() calls in one behaviour
MaxDispatch == 2
\* get_current_state() results kept by callers in one behaviour
MaxSnapshots == 1
\* stop_processing() calls suspended at line 55 at the same time
MaxStoppers == 1
\* tasks start_processing() creates in one behaviour
MaxTasks == 2

(***************************************************************************)
(* Values and the heap.                                                    *)
(***************************************************************************)
\* A value: a = 0 is the scalar named s, a > 0 is a reference to heap[a].
Scalar(s) == [a |-> 0, s |-> s]
Ref(n) == [a |-> n, s |-> ""]
None == Scalar("None")

\* A container: a dict (d: key -> value) or a list (l: sequence of values).
Dict(d) == [kind |-> "dict", d |-> d, l |-> <<>>]
List(l) == [kind |-> "list", d |-> <<>>, l |-> l]

\* isinstance(x, dict), isinstance(x, list), isinstance(x, (dict, list))
IsDict(h, v) == v.a > 0 /\ h[v.a].kind = "dict"
IsList(h, v) == v.a > 0 /\ h[v.a].kind = "list"
\* line 148 with the isinstance test always true, and always false
IsContainerAny(h, v) == TRUE
IsContainerNever(h, v) == FALSE
IsContainer(h, v) == IsDict(h, v) \/ IsList(h, v)

\* The addresses a container refers to.
Children(c) ==
    ({c.d[k].a : k \in DOMAIN c.d} \cup {c.l[i].a : i \in DOMAIN c.l}) \ {0}

RECURSIVE ReachFrom(_, _, _)
ReachFrom(h, frontier, seen) ==
    LET nxt == (UNION {Children(h[a]) : a \in frontier}) \ seen
    IN  IF nxt = {} THEN seen ELSE ReachFrom(h, nxt, seen \cup nxt)

\* The addresses of the containers reachable from value v.
Reachable(h, v) == IF v.a = 0 THEN {} ELSE ReachFrom(h, {v.a}, {v.a})

\* Copy the structure rooted at v in heap src to fresh containers appended
\* to heap h (sharing inside the structure is kept, as deepcopy's memo does).
CopyInto(h, src, v) ==
    LET R == Reachable(src, v)
        New(a) == Len(h) + Cardinality({b \in R : b <= a})
        Remap(x) == IF x.a \in R THEN Ref(New(x.a)) ELSE x
        Copy(c) == [kind |-> c.kind,
                    d |-> [k \in DOMAIN c.d |-> Remap(c.d[k])],
                    l |-> [i \in DOMAIN c.l |-> Remap(c.l[i])]]
        Fresh == [i \in 1..Cardinality(R) |->
                    Copy(src[CHOOSE a \in R : New(a) = Len(h) + i])]
    IN  [h |-> h \o Fresh, v |-> Remap(v)]

\* the object itself in place of a copy of it
deepcopy_same_object(h, v) == [h |-> h, v |-> v]

\* copy.deepcopy(v)
deepcopy(h, v) == CopyInto(h, h, v)

\* The JSON text of a value: what == compares and what "byte-for-byte" means.
RECURSIVE Freeze(_, _)
Freeze(h, v) ==
    IF v.a = 0 THEN [kind |-> "scalar", s |-> v.s, d |-> <<>>, l |-> <<>>]
    ELSE [kind |-> h[v.a].kind, s |-> "",
          d |-> [k \in DOMAIN h[v.a].d |-> Freeze(h, h[v.a].d[k])],
          l |-> [i \in DOMAIN h[v.a].l |-> Freeze(h, h[v.a].l[i])]]

(***************************************************************************)
(* Strings: str.split('.'), str.isdigit(), int(str).                       *)
(***************************************************************************)
Decimals == <<"0", "1", "2", "3", "4", "5", "6", "7", "8", "9">>
DecimalChars == {Decimals[i] : i \in DOMAIN Decimals}
\* str.isdigit() also accepts digits that are not decimals: "^2" stands for
\* the one character SUPERSCRIPT TWO, for which int() raises ValueError.
DigitChars == DecimalChars \cup {"^2"}

isdigit(part) == Len(part) > 0 /\ \A i \in DOMAIN part : part[i] \in DigitChars

\* int(part) raises ValueError
IntRaises(part) == \E i \in DOMAIN part : part[i] \notin DecimalChars

DigitVal(c) == (CHOOSE i \in DOMAIN Decimals : Decimals[i] = c) - 1

RECURSIVE int(_)
int(part) ==
    IF Len(part) = 0 THEN 0
    ELSE 10 * int(SubSeq(part, 1, Len(part) - 1)) + DigitVal(part[Len(part)])

RECURSIVE split(_)
split(path) ==
    IF \A i \in DOMAIN path : path[i] # "." THEN <<path>>
    ELSE LET k == CHOOSE i \in DOMAIN path :
                      path[i] = "." /\ \A j \in 1..(i - 1) : path[j] # "."
         IN  <<SubSeq(path, 1, k - 1)>> \o split(SubSeq(path, k + 1, Len(path)))

(***************************************************************************)
(* The path engine.                                                        *)
(***************************************************************************)
\* the loop of _get_nested_value without its list branch (lines 116-121)
GetStepDictOnly(h, temp_data, part) ==
    IF IsDict(h, temp_data) THEN
        LET d == h[temp_data.a].d
            got == IF part \in DOMAIN d THEN d[part] ELSE None
        IN  [fault |-> FALSE, stop |-> got = None, v |-> got]
    ELSE [fault |-> FALSE, stop |-> TRUE, v |-> None]

\* One iteration of the for loop of _get_nested_value on segment part:
\* stop is "return"/"break" (the result is v), fault is a raised ValueError.
GetStep(h, temp_data, part) ==
    IF IsDict(h, temp_data) THEN
        LET d == h[temp_data.a].d
            got == IF part \in DOMAIN d THEN d[part] ELSE None
        IN  [fault |-> FALSE, stop |-> got = None, v |-> got]
    ELSE IF IsList(h, temp_data) /\ isdigit(part) THEN
        IF IntRaises(part) THEN [fault |-> TRUE, stop |-> TRUE, v |-> None]
        ELSE LET idx == int(part)
                 l == h[temp_data.a].l
             IN  IF 0 <= idx /\ idx < Len(l)
                 THEN [fault |-> FALSE, stop |-> l[idx + 1] = None, v |-> l[idx + 1]]
                 ELSE [fault |-> FALSE, stop |-> TRUE, v |-> None]
    ELSE [fault |-> FALSE, stop |-> TRUE, v |-> None]

RECURSIVE GetWalk(_, _, _)
GetWalk(h, parts, temp_data) ==
    IF parts = <<>> THEN [fault |-> FALSE, v |-> temp_data]
    ELSE LET r == GetStep(h, temp_data, Head(parts))
         IN  IF r.stop THEN [fault |-> r.fault, v |-> r.v]
             ELSE GetWalk(h, Tail(parts), r.v)

\* _get_nested_value(path, current_data)
_get_nested_value(h, path, current_data) == GetWalk(h, split(path), current_data)

\* line 149 creating an empty list: temp_data[part] = []
SetStepEmptyList(h, temp_data, part, value, last) ==
    LET a == temp_data.a
        stay(st) == [status |-> st, h |-> h, temp_data |-> temp_data]
    IN
    IF last THEN
        IF IsDict(h, temp_data) THEN
            [status |-> "True",
             h |-> [h EXCEPT ![a].d = (part :> value) @@ @],
             temp_data |-> temp_data]
        ELSE IF IsList(h, temp_data) /\ isdigit(part) THEN
            IF IntRaises(part) THEN stay("fault")
            ELSE LET idx == int(part) IN
                 IF 0 <= idx /\ idx < Len(h[a].l)
                 THEN [status |-> "True",
                       h |-> [h EXCEPT ![a].l[idx + 1] = value],
                       temp_data |-> temp_data]
                 ELSE stay("False")
        ELSE stay("False")
    ELSE
        IF IsDict(h, temp_data) THEN
            IF part \notin DOMAIN h[a].d \/ ~IsContainer(h, h[a].d[part])
            THEN [status |-> "next",
                  h |-> Append([h EXCEPT ![a].d = (part :> Ref(Len(h) + 1)) @@ @],
                               List(<<>>)),
                  temp_data |-> Ref(Len(h) + 1)]
            ELSE [status |-> "next", h |-> h, temp_data |-> h[a].d[part]]
        ELSE IF IsList(h, temp_data) /\ isdigit(part) THEN
            IF IntRaises(part) THEN stay("fault")
            ELSE LET idx == int(part) IN
                 IF 0 <= idx /\ idx < Len(h[a].l)
                 THEN IF ~IsContainer(h, h[a].l[idx + 1])
                      THEN [status |-> "next",
                            h |-> Append([h EXCEPT ![a].l[idx + 1] = Ref(Len(h) + 1)],
                                         Dict(<<>>)),
                            temp_data |-> Ref(Len(h) + 1)]
                      ELSE [status |-> "next", h |-> h, temp_data |-> h[a].l[idx + 1]]
                 ELSE stay("False")
        ELSE stay("False")

\* One iteration of the for loop of _set_nested_value: segment part, which
\* is the last one iff last.  status: "next" (the loop goes on with
\* temp_data), "True" (the loop ended), "False" (return False), "fault".
SetStep(h, temp_data, part, value, last) ==
    LET a == temp_data.a
        stay(st) == [status |-> st, h |-> h, temp_data |-> temp_data]
    IN
    IF last THEN
        IF IsDict(h, temp_data) THEN
            [status |-> "True",
             h |-> [h EXCEPT ![a].d = (part :> value) @@ @],
             temp_data |-> temp_data]
        ELSE IF IsList(h, temp_data) /\ isdigit(part) THEN
            IF IntRaises(part) THEN stay("fault")
            ELSE LET idx == int(part) IN
                 IF 0 <= idx /\ idx < Len(h[a].l)
                 THEN [status |-> "True",
                       h |-> [h EXCEPT ![a].l[idx + 1] = value],
                       temp_data |-> temp_data]
                 ELSE stay("False")
        ELSE stay("False")
    ELSE
        IF IsDict(h, temp_data) THEN
            IF part \notin DOMAIN h[a].d \/ ~IsContainer(h, h[a].d[part])
            THEN [status |-> "next",
                  h |-> Append([h EXCEPT ![a].d = (part :> Ref(Len(h) + 1)) @@ @],
                               Dict(<<>>)),
                  temp_data |-> Ref(Len(h) + 1)]
            ELSE [status |-> "next", h |-> h, temp_data |-> h[a].d[part]]
        ELSE IF IsList(h, temp_data) /\ isdigit(part) THEN
            IF IntRaises(part) THEN stay("fault")
            ELSE LET idx == int(part) IN
                 IF 0 <= idx /\ idx < Len(h[a].l)
                 THEN IF ~IsContainer(h, h[a].l[idx + 1])
                      THEN [status |-> "next",
                            h |-> Append([h EXCEPT ![a].l[idx + 1] = Ref(Len(h) + 1)],
                                         Dict(<<>>)),
                            temp_data |-> Ref(Len(h) + 1)]
                      ELSE [status |-> "next", h |-> h, temp_data |-> h[a].l[idx + 1]]
                 ELSE stay("False")
        ELSE stay("False")

RECURSIVE SetWalk(_, _, _, _)
SetWalk(h, parts, value, temp_data) ==
    LET r == SetStep(h, temp_data, Head(parts), value, Len(parts) = 1)
    IN  IF r.status = "next" THEN SetWalk(r.h, Tail(parts), value, r.temp_data)
        ELSE [status |-> r.status, h |-> r.h]

\* _set_nested_value(path, value, current_data)
_set_nested_value(h, path, value, current_data) ==
    SetWalk(h, split(path), value, current_data)

(***************************************************************************)
(* The inputs: initial documents, paths and values of dispatched actions.  *)
(* A template is a small heap h with a root value v; it is copied into the *)
(* program's heap when the object is created.                              *)
(***************************************************************************)
\* {} : the initial-state file is missing or invalid (lines 34-42)
DocEmpty == [h |-> <<Dict(<<>>)>>, v |-> Ref(1)]
\* {"s": "dark", "l": ["x"]}
DocBasic ==
    [h |-> <<Dict((<<"s">> :> Scalar("dark")) @@ (<<"l">> :> Ref(2))),
             List(<<Scalar("x")>>)>>,
     v |-> Ref(1)]
InitDocs == {DocEmpty, DocBasic}

\* "s", "a.b", "l.0", "l.5", "l.²", "s.x"
Paths ==
    {<<"s">>, <<"a", ".", "b">>, <<"l", ".", "0">>, <<"l", ".", "5">>,
     <<"l", ".", "^2">>, <<"s", ".", "x">>}

\* the paths a container value is dispatched to
ContainerPaths == {<<"s">>, <<"a", ".", "b">>, <<"l", ".", "0">>}

\* "light" and {"k": "v"}
ValLight == [h |-> <<>>, v |-> Scalar("light")]
ValObj == [h |-> <<Dict(<<"k">> :> Scalar("v"))>>, v |-> Ref(1)]

ACTION_TYPE_SET_STATE == "SET_STATE"
EVENT_TYPE_STATE_CHANGED == "STATE_CHANGED"

\* The action dicts producers build: a function from the keys present to
\* their contents (the value still a template).
ActionTemplates ==
    {("type" :> ACTION_TYPE_SET_STATE) @@ ("path" :> p) @@ ("value" :> ValLight) :
        p \in Paths}
    \cup {("type" :> ACTION_TYPE_SET_STATE) @@ ("path" :> p) @@ ("value" :> ValObj) :
        p \in ContainerPaths}
    \cup {("type" :> ACTION_TYPE_SET_STATE) @@ ("value" :> ValLight),
          ("type" :> ACTION_TYPE_SET_STATE) @@ ("path" :> <<"s">>),
          ("type" :> "OTHER") @@ ("path" :> <<"s">>) @@ ("value" :> ValLight),
          ("path" :> <<"s">>) @@ ("value" :> ValLight)}

\* action.get('type'), action.get('path'), action.get('value')
ActionType(act) == IF "type" \in DOMAIN act THEN act["type"] ELSE "None"
PathIsNone(act) == "path" \notin DOMAIN act
ActionPath(act) == act["path"]
ActionValue(act) == IF "value" \in DOMAIN act THEN act["value"] ELSE None

(***************************************************************************)
(* The state.                                                              *)
(***************************************************************************)
VARIABLES
    heap,             \* the dicts and lists of the interpreter
    _state,           \* self._state: the live document (a value)
    actions,          \* the action dicts dispatched so far; an action's
                      \* identity is its index, the order is dispatch order
    _action_queue,    \* self._action_queue: identities of queued actions
    unfinished,       \* self._action_queue._unfinished_tasks
    _getters,         \* self._action_queue._getters: tasks waiting in get()
    _event_queue,     \* self._event_queue: the events put so far
    tasks,            \* every task start_processing created
    _processing_task, \* self._processing_task: index in tasks, 0 is None
    running,          \* the task the event loop is running, 0 if none
    frame,            \* the running task's position and locals
    stoppers,         \* tasks awaited by suspended stop_processing() calls
    dispatchResult,   \* how the latest dispatch() call ended
    snapshots,        \* results of get_current_state() held by callers
    initial,          \* history: the document after load_initial_state
    dequeued,         \* history: identities of the actions get() returned
    swaps,            \* history: number of executions of line 86
    pre,              \* history: heap, document, events at the latest get()
    taken,            \* history: the value of swaps at each get_current_state()
    call              \* a direct call of the path engine: arguments, result

vars == <<heap, _state, actions, _action_queue, unfinished, _getters,
          _event_queue, tasks, _processing_task, running, frame, stoppers,
          dispatchResult, snapshots, initial, dequeued, swaps, pre, taken,
          call>>

NoFrame == [pc |-> "suspended", action |-> 0, old_value_at_path |-> None,
            temp_state |-> None, temp_data |-> None, parts |-> <<>>]

\* no direct call of the path engine is under way
NoCall == [pc |-> "none", path |-> <<>>, value |-> None, status |-> "none",
           raised |-> FALSE, got |-> None]

\* __init__ (lines 20-27) followed by load_initial_state (lines 29-42)
Init ==
    /\ \E doc \in InitDocs :
          /\ heap = doc.h
          /\ _state = doc.v
          /\ initial = doc
          /\ pre = [h |-> doc.h, v |-> doc.v, nev |-> 0]
    /\ actions = <<>>
    /\ _action_queue = <<>>
    /\ unfinished = 0
    /\ _getters = <<>>
    /\ _event_queue = <<>>
    /\ tasks = <<>>
    /\ _processing_task = 0
    /\ running = 0
    /\ frame = NoFrame
    /\ stoppers = <<>>
    /\ dispatchResult = "none"
    /\ snapshots = <<>>
    /\ dequeued = <<>>
    /\ swaps = 0
    /\ taken = <<>>
    /\ call = NoCall

(***************************************************************************)
(* asyncio: tasks, cancellation and the queue.                             *)
(***************************************************************************)
\* Task.done()
Done(t) == tasks[t].st = "done"

\* asyncio.Queue._wakeup_next: resolve the first getter not yet done
RECURSIVE WakeupNext(_, _)
WakeupNext(getters, ts) ==
    IF getters = <<>> THEN [getters |-> getters, tasks |-> ts]
    ELSE LET g == Head(getters) IN
         IF ts[g].st = "waiting" /\ ~ts[g].must_cancel
         THEN [getters |-> Tail(getters),
               tasks |-> [ts EXCEPT ![g].st = "woken"]]
         ELSE WakeupNext(Tail(getters), ts)

Without(seq, x) == SelectSeq(seq, LAMBDA y : y # x)

\* get_nowait popping the newest item
QueueGetNewest(q) == [item |-> q[Len(q)], rest |-> SubSeq(q, 1, Len(q) - 1)]

\* asyncio.Queue.get_nowait: the item returned and the items left
QueueGet(q) == [item |-> Head(q), rest |-> Tail(q)]

(***************************************************************************)
(* The public operations.  They run on the event loop, so only while no    *)
(* task is running.                                                        *)
(***************************************************************************)
\* dispatch(action): put() on an unbounded queue never suspends, then the
\* f-string of line 167 evaluates action['type'].
Dispatch(tmpl) ==
    /\ running = 0
    /\ Len(actions) < MaxDispatch
    /\ LET c == IF "value" \in DOMAIN tmpl
                THEN CopyInto(heap, tmpl["value"].h, tmpl["value"].v)
                ELSE [h |-> heap, v |-> None]
           act == IF "value" \in DOMAIN tmpl
                  THEN [tmpl EXCEPT !["value"] = c.v] ELSE tmpl
           w == WakeupNext(_getters, tasks)
       IN  /\ heap' = c.h
           /\ actions' = Append(actions, act)
           /\ _action_queue' = Append(_action_queue, Len(actions) + 1)
           /\ unfinished' = unfinished + 1
           /\ _getters' = w.getters
           /\ tasks' = w.tasks
           /\ dispatchResult' =
                 IF "type" \in DOMAIN act THEN "returned" ELSE "KeyError"
    /\ UNCHANGED <<_state, _event_queue, _processing_task, running, frame,
                   stoppers, snapshots, initial, dequeued, swaps, pre, call,
                   taken>>

\* line 45 always true: a task is created at every call
start_processing_always == TRUE

\* start_processing(), lines 44-49
start_processing_new ==
    _processing_task = 0 \/ Done(_processing_task)

start_processing ==
    /\ running = 0
    /\ IF start_processing_new
       THEN /\ Len(tasks) < MaxTasks
            /\ tasks' = Append(tasks, [st |-> "start", must_cancel |-> FALSE])
            /\ _processing_task' = Len(tasks) + 1
       ELSE UNCHANGED <<tasks, _processing_task>>
    /\ UNCHANGED <<heap, _state, actions, _action_queue, unfinished, _getters,
                   _event_queue, running, frame, stoppers, dispatchResult,
                   snapshots, initial, dequeued, swaps, pre, call, taken>>

\* line 53 left out
cancel_forgotten(ts, t) == ts

\* self._processing_task.cancel(), line 53: the cancellation is requested
cancel(ts, t) == [ts EXCEPT ![t].must_cancel = TRUE]

\* stop_processing() up to its await, lines 51-55: cancel() and suspend
stop_processing ==
    /\ running = 0
    /\ IF _processing_task # 0 /\ ~Done(_processing_task)
       THEN /\ Len(stoppers) < MaxStoppers
            /\ tasks' = cancel(tasks, _processing_task)
            /\ stoppers' = Append(stoppers, _processing_task)
       ELSE UNCHANGED <<tasks, stoppers>>
    /\ UNCHANGED <<heap, _state, actions, _action_queue, unfinished, _getters,
                   _event_queue, _processing_task, running, frame,
                   dispatchResult, snapshots, initial, dequeued, swaps, pre,
                   call, taken>>

\* stop_processing() from its await on, lines 55-58: the awaited task ended
stop_returns ==
    /\ running = 0
    /\ stoppers # <<>>
    /\ Done(Head(stoppers))
    /\ stoppers' = Tail(stoppers)
    /\ UNCHANGED <<heap, _state, actions, _action_queue, unfinished, _getters,
                   _event_queue, tasks, _processing_task, running, frame,
                   dispatchResult, snapshots, initial, dequeued, swaps, pre,
                   call, taken>>

\* get_current_state(), lines 172-173.  It is synchronous and reads one
\* reference: a reader may call it at any point of the loop.
get_current_state ==
    /\ Len(snapshots) < MaxSnapshots
    /\ LET c == deepcopy(heap, _state)
       IN  /\ heap' = c.h
           /\ snapshots' = Append(snapshots, c.v)
           /\ taken' = Append(taken, swaps)
    /\ UNCHANGED <<_state, actions, _action_queue, unfinished, _getters,
                   _event_queue, tasks, _processing_task, running, frame,
                   stoppers, dispatchResult, initial, dequeued, swaps, pre,
                   call>>

(***************************************************************************)
(* The consumer task, _action_processor (lines 60-108).  A task step runs  *)
(* from a wake-up to the next suspension: while running # 0 nothing else   *)
(* of the event loop runs.  The only suspension is get() on an empty queue *)
(* (put() on the unbounded event queue never suspends).                    *)
(***************************************************************************)
\* The task's first step.  A cancel() before it throws CancelledError into
\* the coroutine before line 61: the task ends cancelled.
task_first_step(t) ==
    /\ running = 0
    /\ tasks[t].st = "start"
    /\ IF tasks[t].must_cancel
       THEN /\ tasks' = [tasks EXCEPT ![t].st = "done"]
            /\ UNCHANGED <<running, frame>>
       ELSE /\ tasks' = [tasks EXCEPT ![t].st = "running"]
            /\ running' = t
            /\ frame' = [NoFrame EXCEPT !.pc = "get"]
    /\ UNCHANGED <<heap, _state, actions, _action_queue, unfinished, _getters,
                   _event_queue, _processing_task, stoppers, dispatchResult,
                   snapshots, initial, dequeued, swaps, pre, call, taken>>

\* The task resumes in get() (line 64).  With a cancellation pending
\* CancelledError is raised at the await: Queue.get drops its getter, passes
\* a wake-up it cannot use to the next getter, and lines 103-105 end the
\* loop.  Otherwise get() checks the queue again.
task_resumes(t) ==
    /\ running = 0
    /\ \/ tasks[t].st = "woken"
       \/ tasks[t].st = "waiting" /\ tasks[t].must_cancel
    /\ IF tasks[t].must_cancel
       THEN LET ended == [tasks EXCEPT ![t].st = "done"]
                w == IF tasks[t].st = "woken" /\ _action_queue # <<>>
                     THEN WakeupNext(Without(_getters, t), ended)
                     ELSE [getters |-> Without(_getters, t), tasks |-> ended]
            IN  /\ tasks' = w.tasks
                /\ _getters' = w.getters
                /\ UNCHANGED <<running, frame>>
       ELSE /\ tasks' = [tasks EXCEPT ![t].st = "running"]
            /\ running' = t
            /\ frame' = [NoFrame EXCEPT !.pc = "get"]
            /\ UNCHANGED _getters
    /\ UNCHANGED <<heap, _state, actions, _action_queue, unfinished,
                   _event_queue, _processing_task, stoppers, dispatchResult,
                   snapshots, initial, dequeued, swaps, pre, call, taken>>

\* self._action_queue.task_done() followed by the next iteration of the
\* loop.  With no unfinished task it raises ValueError: raised in the try
\* block it is caught at line 106, line 108 raises it again and the task
\* ends with that exception.
task_done ==
    IF unfinished > 0
    THEN /\ unfinished' = unfinished - 1
         /\ frame' = [NoFrame EXCEPT !.pc = "get"]
         /\ UNCHANGED <<tasks, running>>
    ELSE /\ tasks' = [tasks EXCEPT ![running].st = "done"]
         /\ running' = 0
         /\ frame' = NoFrame
         /\ UNCHANGED unfinished

\* the handler of line 106 leaving the loop after marking the action done
handle_exception_break ==
    /\ unfinished' = unfinished - 1
    /\ tasks' = [tasks EXCEPT ![running].st = "done"]
    /\ running' = 0
    /\ frame' = NoFrame

\* the handler of line 106 without line 108: the action is not marked done
handle_exception_no_task_done ==
    /\ frame' = [NoFrame EXCEPT !.pc = "get"]
    /\ UNCHANGED <<unfinished, tasks, running>>

\* lines 106-108: an exception raised while an action is processed is
\* logged, the action is marked done and the loop goes on
handle_exception == task_done

\* line 64: action = await self._action_queue.get()
get_action ==
    /\ running # 0
    /\ frame.pc = "get"
    /\ IF _action_queue = <<>>
       THEN /\ _getters' = Append(_getters, running)
            /\ tasks' = [tasks EXCEPT ![running].st = "waiting"]
            /\ running' = 0
            /\ frame' = NoFrame
            /\ UNCHANGED <<_action_queue, dequeued, pre>>
       ELSE LET g == QueueGet(_action_queue)
            IN  /\ _action_queue' = g.rest
                /\ frame' = [frame EXCEPT !.pc = "l67", !.action = g.item]
                /\ dequeued' = Append(dequeued, g.item)
                /\ pre' = [h |-> heap, v |-> _state, nev |-> Len(_event_queue)]
                /\ UNCHANGED <<_getters, tasks, running>>
    /\ UNCHANGED <<heap, _state, actions, unfinished, _event_queue,
                   _processing_task, stoppers, dispatchResult, snapshots,
                   initial, swaps, call, taken>>

\* lines 67-79: the action's type and path, and the old value at the path
read_action ==
    /\ running # 0
    /\ frame.pc = "l67"
    /\ LET action == actions[frame.action]
           old == _get_nested_value(heap, ActionPath(action), _state)
       IN  IF ActionType(action) # ACTION_TYPE_SET_STATE THEN task_done
           ELSE IF PathIsNone(action) THEN task_done
           ELSE IF old.fault THEN handle_exception
           ELSE /\ frame' = [frame EXCEPT !.pc = "l81",
                                          !.old_value_at_path = old.v]
                /\ UNCHANGED <<unfinished, tasks, running>>
    /\ UNCHANGED <<heap, _state, actions, _action_queue, _getters,
                   _event_queue, _processing_task, stoppers, dispatchResult,
                   snapshots, initial, dequeued, swaps, pre, call, taken>>

\* line 81 without the copy: the write works on the live document
scratch_copy_none(h, v) == [h |-> h, v |-> v]

\* What line 81 hands to _set_nested_value: a deep copy of the document
scratch_copy(h, v) == deepcopy(h, v)

\* line 81, and lines 129-130 of the call of line 83
copy_state ==
    /\ running # 0
    /\ frame.pc = "l81"
    /\ LET c == scratch_copy(heap, _state)
       IN  /\ heap' = c.h
           /\ frame' = [frame EXCEPT
                            !.pc = "l83",
                            !.temp_state = c.v,
                            !.temp_data = c.v,
                            !.parts = split(ActionPath(actions[frame.action]))]
    /\ UNCHANGED <<_state, actions, _action_queue, unfinished, _getters,
                   _event_queue, tasks, _processing_task, running, stoppers,
                   dispatchResult, snapshots, initial, dequeued, swaps, pre,
                   call, taken>>

\* line 85 taken as "the write returned", whatever it returned
applied_successfully_any(status) == status \in {"True", "False"}

\* line 85: if applied_successfully, given how _set_nested_value ended
applied_successfully(status) == status = "True"

\* line 83: one iteration of the loop of _set_nested_value (lines 132-162)
write_segment ==
    /\ running # 0
    /\ frame.pc = "l83"
    /\ LET r == SetStep(heap, frame.temp_data, Head(frame.parts),
                        ActionValue(actions[frame.action]),
                        Len(frame.parts) = 1)
       IN  /\ heap' = r.h
           /\ IF r.status = "next"
              THEN /\ frame' = [frame EXCEPT !.temp_data = r.temp_data,
                                             !.parts = Tail(frame.parts)]
                   /\ UNCHANGED <<unfinished, tasks, running>>
              ELSE IF r.status = "fault" THEN handle_exception
              ELSE IF applied_successfully(r.status)
              THEN /\ frame' = [frame EXCEPT !.pc = "l86"]
                   /\ UNCHANGED <<unfinished, tasks, running>>
              ELSE task_done
    /\ UNCHANGED <<_state, actions, _action_queue, _getters, _event_queue,
                   _processing_task, stoppers, dispatchResult, snapshots,
                   initial, dequeued, swaps, pre, call, taken>>

\* line 86: self._state = temp_state
swap_state ==
    /\ running # 0
    /\ frame.pc = "l86"
    /\ _state' = frame.temp_state
    /\ swaps' = swaps + 1
    /\ frame' = [frame EXCEPT !.pc = "l88"]
    /\ UNCHANGED <<heap, actions, _action_queue, unfinished, _getters,
                   _event_queue, tasks, _processing_task, running, stoppers,
                   dispatchResult, snapshots, initial, dequeued, pre, call,
                   taken>>

\* new_value read from the document the action was applied to
new_value_source_before(live, before) == before

\* The document line 92 reads new_value from
new_value_source(live, before) == live

\* the event with old_value and new_value exchanged
state_changed_swapped(action, old, new) ==
    [type |-> EVENT_TYPE_STATE_CHANGED, path |-> ActionPath(actions[action]),
     old_value |-> new, new_value |-> old, action_source |-> action]

\* The event of lines 88-94
state_changed(action, old, new) ==
    [type |-> EVENT_TYPE_STATE_CHANGED, path |-> ActionPath(actions[action]),
     old_value |-> old, new_value |-> new, action_source |-> action]

\* lines 88-101: put the event, mark the action done
emit_event ==
    /\ running # 0
    /\ frame.pc = "l88"
    /\ LET new == _get_nested_value(heap, ActionPath(actions[frame.action]),
                                    new_value_source(_state, pre.v))
       IN  IF new.fault
           THEN /\ handle_exception
                /\ UNCHANGED _event_queue
           ELSE /\ _event_queue' =
                      Append(_event_queue,
                             state_changed(frame.action,
                                           frame.old_value_at_path, new.v))
                /\ task_done
    /\ UNCHANGED <<heap, _state, actions, _action_queue, _getters,
                   _processing_task, stoppers, dispatchResult, snapshots,
                   initial, dequeued, swaps, pre, call, taken>>

consumer ==
    \/ \E t \in DOMAIN tasks : task_first_step(t) \/ task_resumes(t)
    \/ get_action
    \/ read_action
    \/ copy_state
    \/ write_segment
    \/ swap_state
    \/ emit_event

Next ==
    \/ \E tmpl \in ActionTemplates : Dispatch(tmpl)
    \/ start_processing
    \/ stop_processing
    \/ stop_returns
    \/ get_current_state
    \/ consumer

\* The event loop runs every task that is ready: the consumer task is not
\* starved once it is created, woken or cancelled.
FairSpec == Init /\ [][Next]_vars /\ WF_vars(consumer)

\* The event loop also resumes a stop_processing() call whose awaited task
\* has ended (line 55).
StopSpec ==
    Init /\ [][Next]_vars /\ WF_vars(consumer) /\ WF_vars(stop_returns)

Spec == Init /\ [][Next]_vars

(***************************************************************************)
(* The path engine called directly: _set_nested_value(path, value, doc)    *)
(* on a document, with no scratch copy, then _get_nested_value(path, doc)  *)
(* on the same document.                                                   *)
(***************************************************************************)
\* {"a": {"b": "old", "n": null}, "l": [{"k": "v"}, "x"], "s": "dark"}
DocNested ==
    [h |-> <<Dict((<<"a">> :> Ref(2)) @@ (<<"l">> :> Ref(3))
                  @@ (<<"s">> :> Scalar("dark"))),
             Dict((<<"b">> :> Scalar("old")) @@ (<<"n">> :> None)),
             List(<<Ref(4), Scalar("x")>>),
             Dict(<<"k">> :> Scalar("v"))>>,
     v |-> Ref(1)]
\* ["x", {"k": "v"}] and "dark": json.load returns what the file holds
DocList ==
    [h |-> <<List(<<Scalar("x"), Ref(2)>>), Dict(<<"k">> :> Scalar("v"))>>,
     v |-> Ref(1)]
DocScalar == [h |-> <<>>, v |-> Scalar("dark")]
EngineDocs == {DocEmpty, DocBasic, DocNested, DocList, DocScalar}

\* "s", "", "a.b", "a.b.c", "a.n.c", "s.x", "p.q.r", "l.0", "l.1", "l.01",
\* "l.5", "l.x", "l.²", "l.0.k", "l.1.y", "l.5.y", "l.x.y", "l.².y", "0",
\* "1.k", "0.z"
EnginePaths ==
    {<<"s">>, <<>>, <<"a", ".", "b">>, <<"a", ".", "b", ".", "c">>,
     <<"a", ".", "n", ".", "c">>, <<"s", ".", "x">>,
     <<"p", ".", "q", ".", "r">>,
     <<"l", ".", "0">>, <<"l", ".", "1">>, <<"l", ".", "0", "1">>,
     <<"l", ".", "5">>, <<"l", ".", "x">>, <<"l", ".", "^2">>,
     <<"l", ".", "0", ".", "k">>, <<"l", ".", "1", ".", "y">>,
     <<"l", ".", "5", ".", "y">>, <<"l", ".", "x", ".", "y">>,
     <<"l", ".", "^2", ".", "y">>,
     <<"0">>, <<"1", ".", "k">>, <<"0", ".", "z">>}

\* None: a value may be null
ValNone == [h |-> <<>>, v |-> None]
EngineValues == {ValLight, ValObj, ValNone}

\* a document as loaded, and the arguments of the call
EngineInit ==
    /\ \E doc \in EngineDocs, path \in EnginePaths, value \in EngineValues :
          LET c == CopyInto(doc.h, value.h, value.v)
          IN  /\ heap = c.h
              /\ _state = doc.v
              /\ initial = [h |-> c.h, v |-> doc.v]
              /\ pre = [h |-> c.h, v |-> doc.v, nev |-> 0]
              /\ call = [NoCall EXCEPT !.pc = "set", !.path = path,
                                       !.value = c.v]
    /\ actions = <<>>
    /\ _action_queue = <<>>
    /\ unfinished = 0
    /\ _getters = <<>>
    /\ _event_queue = <<>>
    /\ tasks = <<>>
    /\ _processing_task = 0
    /\ running = 0
    /\ frame = NoFrame
    /\ stoppers = <<>>
    /\ dispatchResult = "none"
    /\ snapshots = <<>>
    /\ dequeued = <<>>
    /\ swaps = 0
    /\ taken = <<>>

\* self._set_nested_value(path, value, current_data=doc), lines 128-163
call_set ==
    /\ call.pc = "set"
    /\ LET w == _set_nested_value(heap, call.path, call.value, _state)
       IN  /\ heap' = w.h
           /\ call' = [call EXCEPT !.pc = "get", !.status = w.status]
    /\ UNCHANGED <<_state, actions, _action_queue, unfinished, _getters,
                   _event_queue, tasks, _processing_task, running, frame,
                   stoppers, dispatchResult, snapshots, initial, dequeued,
                   swaps, pre, taken>>

\* self._get_nested_value(path, current_data=doc), lines 110-126
call_get ==
    /\ call.pc = "get"
    /\ LET r == _get_nested_value(heap, call.path, _state)
       IN  call' = [call EXCEPT !.pc = "done", !.raised = r.fault, !.got = r.v]
    /\ UNCHANGED <<heap, _state, actions, _action_queue, unfinished, _getters,
                   _event_queue, tasks, _processing_task, running, frame,
                   stoppers, dispatchResult, snapshots, initial, dequeued,
                   swaps, pre, taken>>

EngineNext == call_set \/ call_get

EngineSpec == EngineInit /\ [][EngineNext]_vars

(***************************************************************************)
(* Vocabulary of the properties.  The operations above are the program's;  *)
(* what a caller does to the Python objects it holds is not one of them.   *)
(***************************************************************************)
\* What snapshot() returns, as JSON
snapshot == Freeze(heap, _state)

\* An action is malformed: its type is not SET_STATE or it has no path.
Malformed(act) ==
    \/ "type" \notin DOMAIN act
    \/ act["type"] # "SET_STATE"
    \/ "path" \notin DOMAIN act

\* How write(doc, path, value) ends for a well-formed action on a scratch
\* copy of document doc = [h, v]: "True", "False" or "fault".
WriteOn(doc, act) ==
    LET val == CopyInto(doc.h, heap, ActionValue(act))
        c == deepcopy(val.h, doc.v)
        w == _set_nested_value(c.h, ActionPath(act), val.v, c.v)
    IN  [status |-> w.status, h |-> w.h, v |-> c.v]

\* The document that results from processing action act on document doc:
\* the written copy if the action is well-formed and its write returns
\* true, doc itself otherwise.
ApplyTo(doc, act) ==
    IF Malformed(act) THEN doc
    ELSE LET w == WriteOn(doc, act)
         IN  IF w.status = "True" THEN [h |-> w.h, v |-> w.v] ELSE doc

Applies(doc, act) == ~Malformed(act) /\ WriteOn(doc, act).status = "True"

\* The document after the first n dequeued actions, from the initial one
RECURSIVE DocAfter(_)
DocAfter(n) ==
    IF n = 0 THEN initial
    ELSE ApplyTo(DocAfter(n - 1), actions[dequeued[n]])

FreezeDoc(doc) == Freeze(doc.h, doc.v)

\* read(doc, path) as JSON
ReadJson(doc, path) ==
    Freeze(doc.h, _get_nested_value(doc.h, path, doc.v).v)

\* The document at the latest get()
PreDoc == [h |-> pre.h, v |-> pre.v]

\* No task is in the middle of an action.
BetweenActions == running = 0 \/ frame.pc = "get"

Last(seq) == seq[Len(seq)]

\* JSON trees, as Freeze builds them: a scalar and an object
JScalar(x) == [kind |-> "scalar", s |-> x, d |-> <<>>, l |-> <<>>]
JObject(d) == [kind |-> "dict", s |-> "", d |-> d, l |-> <<>>]

\* The latest dequeued action, once it has been processed to the end
LastAction == actions[Last(dequeued)]
Processed == dequeued # <<>> /\ BetweenActions

\* The live document as a document
LiveDoc == [h |-> heap, v |-> _state]

\* positions in dequeued of the actions that apply, in order
AppliedIdx ==
    SelectSeq([n \in 1..Len(dequeued) |-> n],
              LAMBDA n : Applies(DocAfter(n - 1), actions[dequeued[n]]))

\* A loop exists: self._processing_task is a task that is not done.
Running == _processing_task # 0 /\ ~Done(_processing_task)

\* stop() has cancelled the task self._processing_task names.
StopRequested == _processing_task # 0 /\ tasks[_processing_task].must_cancel

(***************************************************************************)
(* Claim C1.                                                               *)
(***************************************************************************)
Unapplicable(act) == ~Malformed(act) /\ WriteOn(PreDoc, act).status = "False"

\* C1  Failure isolation.  From the moment a malformed action (type other
\* than SET_STATE, or no path) or an unapplicable one (its write returns
\* false) is dequeued until the next action is dequeued, snapshot() equals
\* the snapshot at the dequeue and the event stream has not grown.
C1_FailureIsolation ==
    dequeued # <<>> =>
        LET act == actions[Last(dequeued)]
        IN  (Malformed(act) \/ Unapplicable(act)) =>
                /\ snapshot = FreezeDoc(PreDoc)
                /\ Len(_event_queue) = pre.nev

\* an out-of-range write was processed to the end after an earlier event
C1_Witness ==
    /\ dequeued # <<>>
    /\ Unapplicable(actions[Last(dequeued)])
    /\ BetweenActions
    /\ pre.nev > 0

(***************************************************************************)
(* Claim C2.                                                               *)
(***************************************************************************)
\* C2  Order preservation.  The events on the stream are, in order, those
\* of the dequeued actions that apply (all of them once no action is in
\* flight), and the k-th event's new_value equals read(path) of the
\* document obtained by applying the actions up to and including its own.
C2_OrderPreservation ==
    /\ Len(_event_queue) <= Len(AppliedIdx)
    /\ BetweenActions => Len(_event_queue) = Len(AppliedIdx)
    /\ \A k \in DOMAIN _event_queue :
          k <= Len(AppliedIdx) =>
            LET n == AppliedIdx[k]
            IN  /\ _event_queue[k].action_source = dequeued[n]
                /\ Freeze(heap, _event_queue[k].new_value) =
                      ReadJson(DocAfter(n), actions[dequeued[n]]["path"])

\* two valid actions on the same path: two events, the second with the
\* value that overwrote the first
C2_Witness ==
    /\ Len(_event_queue) = 2
    /\ Len(dequeued) = 2
    /\ _event_queue[1].path = _event_queue[2].path
    /\ Freeze(heap, _event_queue[1].new_value)
          # Freeze(heap, _event_queue[2].new_value)

(***************************************************************************)
(* Claim C3.                                                               *)
(***************************************************************************)
\* C3  FIFO application.  The actions dequeued so far, in dequeue order,
\* followed by the queued ones, are exactly the dispatched actions in the
\* order their enqueues completed: none skipped, reordered or repeated.
C3_FifoApplication ==
    dequeued \o _action_queue = [i \in 1..Len(actions) |-> i]

\* the first action is in flight while a second, dispatched with it, waits
C3_Witness ==
    /\ dequeued = <<1>>
    /\ _action_queue = <<2>>
    /\ frame.pc = "l81"

(***************************************************************************)
(* Claim C4.                                                               *)
(***************************************************************************)
PrefixDocs == {FreezeDoc(DocAfter(j)) : j \in 0..Len(dequeued)}

\* C4  Snapshot atomicity.  In every state, an action in flight or not,
\* the live document and every document get_current_state() returned equal
\* the initial document with a whole prefix of the dequeued actions applied
\* in order; a partially written document is never among them.
C4_SnapshotAtomicity ==
    /\ snapshot \in PrefixDocs
    /\ \A i \in DOMAIN snapshots : Freeze(heap, snapshots[i]) \in PrefixDocs

\* the write is half done on the scratch copy (an intermediate object was
\* created, the value is not yet set) and a snapshot was taken
C4_Witness ==
    /\ frame.pc = "l83"
    /\ Len(frame.parts) = 1
    /\ Freeze(heap, frame.temp_state) # snapshot
    /\ snapshots # <<>>
    /\ Cardinality(Reachable(heap, frame.temp_state))
          > Cardinality(Reachable(heap, _state))

(***************************************************************************)
(* Claim C5.                                                               *)
(***************************************************************************)
\* C5  Event content.  Every event is a STATE_CHANGED event of a dequeued
\* action: it carries that action and its path, old_value is read(path) on
\* the document just before the action was applied (null if the path does
\* not resolve) and new_value is read(path) on the document just after.
C5_EventContent ==
    \A k \in DOMAIN _event_queue :
        LET e == _event_queue[k]
        IN  /\ e.type = "STATE_CHANGED"
            /\ \E n \in DOMAIN dequeued :
                  /\ dequeued[n] = e.action_source
                  /\ e.path = actions[dequeued[n]]["path"]
                  /\ Freeze(heap, e.old_value) = ReadJson(DocAfter(n - 1), e.path)
                  /\ Freeze(heap, e.new_value) = ReadJson(DocAfter(n), e.path)

\* an event that replaced an existing value, then one whose path did not
\* resolve before and now holds a container
C5_Witness ==
    /\ Len(_event_queue) = 2
    /\ _event_queue[1].old_value = Scalar("dark")
    /\ _event_queue[1].new_value = Scalar("light")
    /\ _event_queue[2].old_value = None
    /\ _event_queue[2].new_value.a > 0

(***************************************************************************)
(* Claim C6.                                                               *)
(***************************************************************************)
LiveLoops == {t \in DOMAIN tasks : ~Done(t)}

OneLoop ==
    /\ Cardinality(LiveLoops) <= 1
    /\ LiveLoops \subseteq {_processing_task}
    /\ Cardinality({t \in DOMAIN tasks : tasks[t].st = "running"}) <= 1
    /\ frame.pc # "suspended" => running # 0 /\ tasks[running].st = "running"

\* C6  Single consumer.  At most one consumer loop exists, and it is the
\* task self._processing_task names; at most one task is applying an
\* action; start() while a loop exists (a stop() awaiting it or not) and
\* stop() while none exists change nothing.
C6_SingleConsumer ==
    /\ []OneLoop
    /\ [][start_processing /\ Running => UNCHANGED vars]_vars
    /\ [][stop_processing /\ ~Running => UNCHANGED vars]_vars

\* a second loop was started after the first one ended, and a stop() is
\* awaiting its termination (a start() now finds the task not done)
C6_Witness ==
    /\ _processing_task = Len(tasks)
    /\ Len(tasks) > 1
    /\ stoppers = <<_processing_task>>
    /\ Running
    /\ Done(1)

(***************************************************************************)
(* Claim C7.                                                               *)
(***************************************************************************)
\* C7  One event per applied action.  Between processing steps the number
\* of events equals the number of dequeued actions that apply, which
\* equals the number of replacements of the live document; inside a step
\* the replacement is ahead of its event by one, only between line 86 and
\* line 88.
C7_OneEventPerAppliedAction ==
    /\ BetweenActions =>
          /\ Len(_event_queue) = Len(AppliedIdx)
          /\ swaps = Len(AppliedIdx)
    /\ swaps = Len(_event_queue) \/ swaps = Len(_event_queue) + 1
    /\ swaps # Len(_event_queue) => frame.pc = "l88"

\* a malformed action then a valid one were processed: one event
C7_Witness ==
    /\ BetweenActions
    /\ Len(dequeued) = 2
    /\ Len(_event_queue) = 1
    /\ swaps = 1
    /\ Malformed(actions[dequeued[1]])

(***************************************************************************)
(* Claim C8.                                                               *)
(***************************************************************************)
EndsOnlyByStop == \A t \in DOMAIN tasks : Done(t) => tasks[t].must_cancel

\* C8  The pipeline never terminates from a single bad action.  A consumer
\* loop ends only when stop() cancelled it (never because of a discarded
\* or faulting action), and while a loop exists that stop() has not
\* cancelled every queued action is eventually dequeued and processed.
C8_NeverTerminates ==
    /\ []EndsOnlyByStop
    /\ (_action_queue # <<>> /\ Running /\ ~StopRequested)
          ~> ((_action_queue = <<>> /\ BetweenActions) \/ StopRequested)

\* an action whose processing raised (int() of a non-decimal digit) was
\* followed by an action that was applied, the loop still there
C8_Witness ==
    /\ Len(dequeued) = 2
    /\ ~Malformed(actions[dequeued[1]])
    /\ WriteOn(initial, actions[dequeued[1]]).status = "fault"
    /\ Len(_event_queue) = 1
    /\ Running /\ ~StopRequested
    /\ BetweenActions

(***************************************************************************)
(* Claim C9.                                                               *)
(***************************************************************************)
\* C9  dispatch(action) never raises to its caller, for any action, an
\* action with no type field included.
C9_DispatchNeverRaises == dispatchResult # "KeyError"

(***************************************************************************)
(* Claim C10.                                                              *)
(***************************************************************************)
HeldOutside ==
    {ActionValue(actions[i]) : i \in DOMAIN actions}
    \cup {_event_queue[i].old_value : i \in DOMAIN _event_queue}
    \cup {_event_queue[i].new_value : i \in DOMAIN _event_queue}
    \cup {snapshots[i] : i \in DOMAIN snapshots}

\* C10  Exclusive ownership.  No container reachable from the live document
\* is reachable from a value held outside the pipeline: the value of a
\* dispatched action, the old_value or new_value of an emitted event, or a
\* snapshot result.
C10_ExclusiveOwnership ==
    \A v \in HeldOutside : Reachable(heap, v) \cap Reachable(heap, _state) = {}

(***************************************************************************)
(* Claim C11.                                                              *)
(***************************************************************************)
\* the document before the direct call, as JSON
DocBefore == Freeze(initial.h, initial.v)

\* the direct call's write returned true and the read that follows is over
WroteAndRead == call.pc = "done" /\ call.status = "True"

\* C11  Write monotonicity.  For every document, path and value v, if
\* write(doc, path, v) returns true, read(doc, path) on the same document
\* right after returns (and does not raise) a value equal to v.
C11_WriteMonotonicity ==
    WroteAndRead =>
        /\ ~call.raised
        /\ Freeze(heap, call.got) = Freeze(initial.h, call.value)

\* "l.1.y" = {"k": "v"} where l[1] is the string "x": a non-container
\* inside an array is overwritten mid-path, then read back
C11_Witness ==
    /\ WroteAndRead
    /\ call.path = <<"l", ".", "1", ".", "y">>
    /\ DocBefore = FreezeDoc(DocNested)
    /\ call.value.a > 0
    /\ Freeze(heap, call.got).kind = "dict"

(***************************************************************************)
(* Claim C12.                                                              *)
(***************************************************************************)
\* {p1: {p2: ... {pn: val}}}
RECURSIVE Nest(_, _)
Nest(parts, val) ==
    IF parts = <<>> THEN val
    ELSE JObject(Head(parts) :> Nest(Tail(parts), val))

\* The first of several segments addresses a key of the root object that
\* is absent or holds a non-container: every non-terminal segment then
\* addresses such a key (the later ones in the object just created).
Vivifies(tree, parts) ==
    /\ tree.kind = "dict"
    /\ Len(parts) >= 2
    /\ Head(parts) \in DOMAIN tree.d => tree.d[Head(parts)].kind = "scalar"

\* C12  Auto-vivification.  A SET_STATE whose non-terminal segments address
\* object keys that are absent or hold a non-container value is applied:
\* the document becomes the previous one with the first segment's key
\* holding fresh nested objects down to the terminal key, which holds the
\* value, and exactly one event is emitted, for this action; its old_value
\* is null.
C12_AutoVivification ==
    Processed /\ ~Malformed(LastAction) =>
        LET parts == split(LastAction["path"])
            before == FreezeDoc(PreDoc)
            val == Freeze(heap, ActionValue(LastAction))
        IN  Vivifies(before, parts) =>
              /\ snapshot =
                    [before EXCEPT
                        !.d = (Head(parts) :> Nest(Tail(parts), val)) @@ @]
              /\ Len(_event_queue) = pre.nev + 1
              /\ Last(_event_queue).action_source = Last(dequeued)
              /\ Last(_event_queue).old_value = None

\* "s.x" = "light" where s held the string "dark": s is now an object
C12_Witness ==
    /\ Processed
    /\ LastAction = ("type" :> "SET_STATE") @@ ("path" :> <<"s", ".", "x">>)
                        @@ ("value" :> Scalar("light"))
    /\ <<"s">> \in DOMAIN FreezeDoc(PreDoc).d
    /\ FreezeDoc(PreDoc).d[<<"s">>] = JScalar("dark")
    /\ _event_queue # <<>>
    /\ snapshot.d[<<"s">>] = JObject(<<"x">> :> JScalar("light"))
    /\ Last(_event_queue).old_value = None

(***************************************************************************)
(* Claim C13.                                                              *)
(***************************************************************************)
\* a segment that is not the decimal numeral of an index
NonNumeric(part) ==
    part = <<>> \/ \E i \in DOMAIN part : part[i] \notin DecimalChars

\* Walking the JSON document tree along parts the way a write does, some
\* segment is applied to an array and is non-numeric or out of bounds.
RECURSIVE ArrayMiss(_, _)
ArrayMiss(tree, parts) ==
    IF parts = <<>> THEN FALSE
    ELSE LET part == Head(parts) IN
         IF tree.kind = "list" THEN
             \/ NonNumeric(part)
             \/ int(part) >= Len(tree.l)
             \/ ArrayMiss(tree.l[int(part) + 1], Tail(parts))
         ELSE IF tree.kind = "dict" /\ part \in DOMAIN tree.d
         THEN ArrayMiss(tree.d[part], Tail(parts))
         ELSE FALSE

\* C13  Array bounds.  A write whose path applies an out-of-bounds index or
\* a non-numeric segment to an array, at the terminal segment or before,
\* returns false; and a write that returns true leaves the length of every
\* array as it was (no array slot is created).
C13_ArrayBounds ==
    call.pc \in {"get", "done"} =>
        /\ ArrayMiss(DocBefore, split(call.path)) => call.status = "False"
        /\ call.status = "True" =>
              \A a \in DOMAIN initial.h :
                  initial.h[a].kind = "list" =>
                      Len(heap[a].l) = Len(initial.h[a].l)

(***************************************************************************)
(* Claim C14.                                                              *)
(***************************************************************************)
\* The JSON tree with the path parts set to val: missing or non-container
\* intermediate values become objects, array elements are replaced in place.
RECURSIVE TreeSet(_, _, _)
TreeSet(tree, parts, val) ==
    LET part == Head(parts)
        child == IF tree.kind = "dict"
                 THEN IF part \in DOMAIN tree.d THEN tree.d[part]
                      ELSE JScalar("None")
                 ELSE tree.l[int(part) + 1]
        sub == IF Len(parts) = 1 THEN val
               ELSE TreeSet(IF child.kind = "scalar" THEN JObject(<<>>)
                            ELSE child,
                            Tail(parts), val)
    IN  IF tree.kind = "dict"
        THEN [tree EXCEPT !.d = (part :> sub) @@ @]
        ELSE [tree EXCEPT !.l[int(part) + 1] = sub]

\* two segments are the same: equal, or numerals of the same index
SameSegment(x, y) ==
    x = y \/ (~NonNumeric(x) /\ ~NonNumeric(y) /\ int(x) = int(y))

\* p and q differ at a segment position both have
Diverges(p, q) ==
    \E i \in 1..(IF Len(p) < Len(q) THEN Len(p) ELSE Len(q)) :
        ~SameSegment(p[i], q[i])

\* the paths read back: those of the actions and
\* "a", "l", "a.c", "a.b.k", "l.1", "l.00", "s.y"
ProbePaths ==
    Paths \cup {<<"a">>, <<"l">>, <<"a", ".", "c">>,
                <<"a", ".", "b", ".", "k">>, <<"l", ".", "1">>,
                <<"l", ".", "0", "0">>, <<"s", ".", "y">>}

\* The latest dequeued action was applied: line 86 has run for it.
JustApplied ==
    /\ dequeued # <<>>
    /\ frame.pc = "l88" \/ (BetweenActions /\ Len(_event_queue) > pre.nev)

SnapshotsKept ==
    \A i \in DOMAIN snapshots :
        /\ i \in DOMAIN snapshots'
        /\ Freeze(heap', snapshots'[i]) = Freeze(heap, snapshots[i])

\* a call now returns a document equal to every one returned since the
\* latest replacement of the live document
SnapshotsAgree ==
    \A i \in DOMAIN snapshots :
        taken[i] = swaps => Freeze(heap, snapshots[i]) = snapshot

\* C15  Snapshots are point-in-time.  A document returned by snapshot() is
\* not changed by any later step, an applied action included, and a
\* snapshot() call returns a document equal to the one an earlier call
\* returned if no action was applied between the two.
C15_PointInTimeSnapshots == [][SnapshotsKept]_vars /\ []SnapshotsAgree

\* a snapshot was taken before any action was applied, an action then
\* replaced the live document, and the snapshot is still the initial document
C15_Witness ==
    /\ snapshots # <<>>
    /\ taken[1] = 0
    /\ swaps = 1
    /\ BetweenActions
    /\ Freeze(heap, snapshots[1]) # snapshot
    /\ Freeze(heap, snapshots[1]) = FreezeDoc(initial)

(***************************************************************************)
(* Claim C16.                                                              *)
(***************************************************************************)
\* a stop() call that found a loop is suspended at line 55
StopAwaiting == stoppers # <<>>

\* a suspended stop() call returns in this step
StopReturning == stoppers # <<>> /\ stoppers' = Tail(stoppers)

\* what a suspended stop() call awaits is the loop it cancelled
AwaitsCancelledLoop ==
    \A i \in DOMAIN stoppers : tasks[stoppers[i]].must_cancel

\* C16 as stated: stop() terminates.  Whenever stop() is called while a
\* loop exists, stop() eventually returns, the loop has then exited and
\* the pipeline is Idle (no loop exists).
C16_StopReturnsIdle ==
    /\ StopAwaiting ~> ~StopAwaiting
    /\ []AwaitsCancelledLoop
    /\ [][StopReturning => ~Running']_vars

\* C16 as amended: whenever stop() is called while a loop exists, whatever
\* the queue holds and whether or not actions keep being dispatched,
\* stop() eventually returns; when it returns the loop it cancelled has
\* exited, and the pipeline is Idle unless a start() called after that loop
\* ended has created a new one.
C16_StopTerminates ==
    /\ StopAwaiting ~> ~StopAwaiting
    /\ []AwaitsCancelledLoop
    /\ [][StopReturning =>
            /\ tasks'[Head(stoppers)].st = "done"
            /\ Running' => _processing_task' # Head(stoppers)]_vars

\* stop() was called with two actions queued and none dequeued: the loop
\* has ended, stop() has returned, the actions are still queued
C16_Witness ==
    /\ stoppers = <<>>
    /\ _processing_task # 0
    /\ tasks[_processing_task].must_cancel
    /\ Done(_processing_task)
    /\ Len(_action_queue) = 2
    /\ dequeued = <<>>

(***************************************************************************)
(* Claim C17.                                                              *)
(***************************************************************************)
\* q is p, or p with one item appended
Lengthened(p, q) == q = p \/ (Len(q) = Len(p) + 1 /\ SubSeq(q, 1, Len(p)) = p)

\* C17  Idle quiescence.  In a step that begins and ends with the pipeline
\* Idle (no loop exists: before the first start(), or from the end of the
\* loop stop() cancelled to the next start()), no action is dequeued, the
\* live document does not change and no event is emitted; a dispatch()
\* only appends to the inbound queue.
C17_IdleQuiescence ==
    [][(~Running /\ ~Running') =>
          /\ dequeued' = dequeued
          /\ _state' = _state
          /\ Freeze(heap', _state') = snapshot
          /\ _event_queue' = _event_queue
          /\ Lengthened(_action_queue, _action_queue')]_vars

\* a loop applied one action, was cancelled and has ended, stop() has
\* returned, and a second action dispatched is still queued
C17_Witness ==
    /\ _processing_task # 0
    /\ ~Running
    /\ stoppers = <<>>
    /\ Len(dequeued) = 1
    /\ swaps = 1
    /\ BetweenActions
    /\ Len(_action_queue) = 1
    /\ dispatchResult = "returned"

(***************************************************************************)
(* Claim C18.                                                              *)
(***************************************************************************)
\* C18  Task-done bookkeeping.  Between processing steps the queue's count
\* of unfinished actions equals the number of actions queued; while an
\* action is processed it is one more (the action dequeued and not yet
\* marked done); the count is never negative, and no loop has ended on the
\* ValueError of a task_done() called once too often.
C18_TaskDoneBookkeeping ==
    /\ unfinished >= 0
    /\ BetweenActions => unfinished = Len(_action_queue)
    /\ ~BetweenActions => unfinished = Len(_action_queue) + 1
    /\ \A t \in DOMAIN tasks : Done(t) => tasks[t].must_cancel

\* an action whose write raised (internal fault) and one with no path were
\* both processed: both are marked done
C18_Witness ==
    /\ Processed
    /\ Len(dequeued) = 2
    /\ ~Malformed(actions[dequeued[1]])
    /\ WriteOn(initial, actions[dequeued[1]]).status = "fault"
    /\ "path" \notin DOMAIN LastAction
    /\ unfinished = 0
    /\ _action_queue = <<>>

(***************************************************************************)
(* Claim C19.                                                              *)
(***************************************************************************)
\* the dispatched actions get() has not returned, in enqueue order
Pending ==
    SelectSeq([i \in 1..Len(actions) |-> i],
              LAMBDA i : \A n \in DOMAIN dequeued : dequeued[n] # i)

\* a loop ends in this step
LoopEnds == \E t \in DOMAIN tasks : ~Done(t) /\ tasks'[t].st = "done"

\* a loop was started after an earlier one
Restarted == Len(tasks) > 1

\* C19  No action is lost across stop/restart.  The cancellation of a loop
\* and its end leave the inbound queue as it is; in every state the queue
\* holds exactly the enqueued actions not yet dequeued, in enqueue order,
\* each action is dequeued at most once and before every action enqueued
\* after it; and a restarted loop that stop() has not cancelled eventually
\* processes all the actions queued.
C19_NoActionLost ==
    /\ [](_action_queue = Pending)
    /\ [](\A m, n \in DOMAIN dequeued : m < n => dequeued[m] < dequeued[n])
    /\ [][(LoopEnds \/ stoppers' # stoppers) =>
              _action_queue' = _action_queue /\ dequeued' = dequeued]_vars
    /\ (Restarted /\ Running /\ ~StopRequested /\ _action_queue # <<>>)
          ~> ((_action_queue = <<>> /\ BetweenActions) \/ StopRequested)

\* the first loop was cancelled and has ended; the loop started after it
\* has just dequeued the first action while the second is still queued
C19_Witness ==
    /\ Restarted
    /\ Done(1)
    /\ tasks[1].must_cancel
    /\ running = 2
    /\ frame.pc = "l67"
    /\ frame.action = 1
    /\ _action_queue = <<2>>

(***************************************************************************)
(* Claim C20.                                                              *)
(***************************************************************************)
\* C20  A failing write never mutates its target.  For every object-rooted
\* document, path and value, if write(doc, path, value) returns false, the
\* document (written in place, no scratch copy) and every object of the
\* interpreter are exactly as before the call.
C20_FailedWriteLeavesTarget ==
    (call.pc \in {"get", "done"} /\ call.status = "False"
        /\ IsDict(initial.h, initial.v)) =>
        /\ heap = initial.h
        /\ Freeze(heap, _state) = DocBefore

\* a three-segment write into an object-rooted document returned false
\* after its first segments were traversed
C20_Witness ==
    /\ call.pc = "get"
    /\ call.status = "False"
    /\ IsDict(initial.h, initial.v)
    /\ Len(split(call.path)) = 3

====
